---- MODULE Spec2Model ----
(***************************************************************************)
(* Poker tournament ledger (src/app.py): one Google Sheets worksheet       *)
(* "players" holding one row per player, a Streamlit script that reloads   *)
(* the whole sheet at the start of every run, handles at most one widget   *)
(* event, rewrites the whole sheet and reruns, and the settlement          *)
(* computation (profit, adjusted profit, rankings, team totals).           *)
(*                                                                         *)
(* Conventions of the model                                                *)
(*  - a numeric cell of a DataFrame is <<v>> (the number v) or <<>> (NaN); *)
(*  - a worksheet cell is text: the decimal text of a number, "nan", or    *)
(*    the string itself; created_at / updated_at hold the ISO-8601 text of *)
(*    a second, which orders as the second does, and are kept as the       *)
(*    second's number;                                                     *)
(*  - uuid4() draws a value never drawn before.                            *)
(***************************************************************************)
EXTENDS Integers, Sequences, FiniteSets, TLC

\* ------------------------------------------------------------------ bounds
\* registrations (uuid4 draws) in one behaviour
MaxPlayers == 2
\* seconds the clock can advance
MaxTime == 1
\* re-buys accepted for one player and not undone
MaxRebuyCount == 2
\* rows of a ledger drawn as input of the settlement computation
MaxRows == 3

\* sessions (browser tabs) of the two-client specification
Clients == {1, 2}

\* ------------------------------------------------------------- input sets
\* st.selectbox("チーム", ["CSE", "RC"]); the list is in ascending text order
TeamOptions == <<"CSE", "RC">>
\* st.selectbox("スキル区分", ["初心者", "経験者"]), romanised
SkillOptions == <<"shoshinsha", "keikensha">>
\* submissions of the add_player_form, <<name, team, skill_jp, initial_buyin>>:
\* st.text_input gives any text (the empty text when nothing was typed), the
\* select boxes one of their options, st.number_input(min_value=0) an
\* integer >= 0
RegisterInputs ==
    { <<"", "CSE", "shoshinsha", 0>>,
      <<" ", "RC", "keikensha", 1>>,
      <<"a", "CSE", "shoshinsha", 0>>,
      <<"b", "RC", "keikensha", 1>> }
NameInputs == {r[1] : r \in RegisterInputs}
\* st.number_input(min_value=0): an integer >= 0
RebuyInputs == {0, 1, 2}
\* st.number_input(format="%d"), no minimum: any integer
FinalStackInputs == {-2, 3}

\* the numbers whose decimal text the model can read back from a cell
NumRange == -12 .. 12

\* ------------------------------------------------------- numeric cells
Num(v) == <<v>>
NaN == <<>>
isna(x) == x = NaN
fillna(x, v) == IF isna(x) THEN Num(v) ELSE x
\* float arithmetic: NaN absorbs
add(x, y) == IF isna(x) \/ isna(y) THEN NaN ELSE Num(x[1] + y[1])
sub(x, y) == IF isna(x) \/ isna(y) THEN NaN ELSE Num(x[1] - y[1])

\* df.astype(str) on a numeric cell: the number's text, "nan" for NaN (and
\* "None" for None, which to_numeric reads as NaN all the same)
astype_str(x) == IF isna(x) THEN "nan" ELSE ToString(x[1])

\* pd.to_numeric(errors="coerce"): the number a text spells, NaN otherwise
to_numeric(s) ==
    IF \E n \in NumRange : ToString(n) = s
    THEN Num(CHOOSE n \in NumRange : ToString(n) = s)
    ELSE NaN

\* ------------------------------------------------------------ worksheet
\* the header row written by get_worksheet / write_players_df
Columns ==
    [player_id |-> "player_id", name |-> "name", team |-> "team",
     skill |-> "skill", initial_buyin |-> "initial_buyin",
     rebuy_total |-> "rebuy_total", rebuy_count |-> "rebuy_count",
     final_stack |-> "final_stack", created_at |-> "created_at",
     updated_at |-> "updated_at"]

\* one DataFrame row as the sheet row df.astype(str).values.tolist() gives
SheetRow(r) ==
    [player_id |-> r.player_id, name |-> r.name, team |-> r.team,
     skill |-> r.skill,
     initial_buyin |-> astype_str(r.initial_buyin),
     rebuy_total |-> astype_str(r.rebuy_total),
     rebuy_count |-> astype_str(r.rebuy_count),
     final_stack |-> astype_str(r.final_stack),
     created_at |-> r.created_at, updated_at |-> r.updated_at]

\* one sheet row as load_players_df reads it; i is its pandas index label
FrameRow(row, i) ==
    [index |-> i,
     player_id |-> row.player_id, name |-> row.name, team |-> row.team,
     skill |-> row.skill,
     initial_buyin |-> to_numeric(row.initial_buyin),
     rebuy_total |-> to_numeric(row.rebuy_total),
     rebuy_count |-> to_numeric(row.rebuy_count),
     final_stack |-> to_numeric(row.final_stack),
     created_at |-> row.created_at, updated_at |-> row.updated_at]

\* DataFrame.sort_values(kind="mergesort"): the stable sort by a strict weak
\* order; less[i][j] tells whether row i sorts before row j. A row goes after
\* the rows that are less and after the earlier rows that are neither less
\* nor greater
sort_values(frame, less) ==
    LET n == Len(frame)
        pos(i) == 1 + Cardinality({j \in 1..n :
                       \/ less[j][i]
                       \/ (~less[i][j] /\ j < i)})
    IN  [p \in 1..n |-> frame[CHOOSE i \in 1..n : pos(i) = p]]

by_created_at(a, b) == a.created_at < b.created_at

\* load_players_df: rows[0] is the header, the rest the data; numeric columns
\* are parsed; the frame is sorted by created_at, keeping the index labels
load_players_df(rows) ==
    IF Len(rows) <= 1
    THEN <<>>
    ELSE LET data == Tail(rows)
             frame == [i \in 1..Len(data) |-> FrameRow(data[i], i - 1)]
         IN  sort_values(frame,
                 [i \in 1..Len(frame) |-> [j \in 1..Len(frame) |->
                     by_created_at(frame[i], frame[j])]])

\* the sheet write_players_df leaves when no call fails: ws.clear(), then
\* ws.append_row(header), then ws.append_rows(rows) when there are rows
written(frame) ==
    <<Columns>> \o [i \in 1..Len(frame) |-> SheetRow(frame[i])]

\* write_players_df without ws.clear()
write_players_df_no_clear(ws, frame, fail) == ws \o written(frame)

\* write_players_df when the store backend fails: the call named by fail
\* raises and the calls after it never run ("none": no call fails)
write_players_df(ws, frame, fail) ==
    CASE fail = "clear" -> ws
      [] fail = "append_row" -> <<>>
      [] fail = "append_rows" /\ Len(frame) > 0 -> <<Columns>>
      [] OTHER -> written(frame)

\* ------------------------------------------------------------ settlement
\* round() replaced by int(): truncation toward zero
round_truncate(num, den) ==
    IF num >= 0 THEN num \div den ELSE -((-num) \div den)

\* Python's round(): to the nearest integer, a half to the even neighbour;
\* the value is num / den
round(num, den) ==
    LET q == num \div den
        r == num % den
    IN  IF 2 * r < den THEN q
        ELSE IF 2 * r > den THEN q + 1
        ELSE IF q % 2 = 0 THEN q ELSE q + 1

\* adjust_profit(row): None for a row without profit, else the profit
\* doubled or halved by sign and skill, rounded
adjust_profit(row) ==
    LET profit == row.profit
    IN  IF isna(profit) THEN NaN
        ELSE IF profit[1] >= 0
             THEN IF row.skill = "experienced"
                  THEN Num(round(profit[1], 2))
                  ELSE Num(round(profit[1] * 2, 1))
             ELSE IF row.skill = "experienced"
                  THEN Num(round(profit[1] * 2, 1))
                  ELSE Num(round(profit[1], 2))

\* CalcRow with the re-buys left out of total_buyin
CalcRowNoRebuy(r) ==
    LET total_buyin == fillna(r.initial_buyin, 0)
        profit == sub(r.final_stack, total_buyin)
        withProfit == r @@ [total_buyin |-> total_buyin, profit |-> profit]
    IN  withProfit @@ [adjusted_profit |-> adjust_profit(withProfit)]

\* one row of compute_profit_and_adjusted's result: the row with the columns
\* total_buyin, profit and adjusted_profit added
CalcRow(r) ==
    LET total_buyin == add(fillna(r.initial_buyin, 0), fillna(r.rebuy_total, 0))
        profit == sub(r.final_stack, total_buyin)
        withProfit == r @@ [total_buyin |-> total_buyin, profit |-> profit]
    IN  withProfit @@ [adjusted_profit |-> adjust_profit(withProfit)]

compute_profit_and_adjusted(frame) ==
    [i \in 1..Len(frame) |-> CalcRow(frame[i])]

\* df.dropna(subset=[key])
dropna_profit(frame) == SelectSeq(frame, LAMBDA r : ~isna(r.profit))
dropna_adjusted(frame) == SelectSeq(frame, LAMBDA r : ~isna(r.adjusted_profit))

\* sort_for_ranking: by [key, _orig_index], ascending=[False, True]; the
\* _orig_index column is the frame's index label
\* rank_by_profit with the later row first among equal profits
rank_by_profit_unstable(a, b) ==
    \/ a.profit[1] > b.profit[1]
    \/ (a.profit[1] = b.profit[1] /\ a.index > b.index)

rank_by_profit(a, b) ==
    \/ a.profit[1] > b.profit[1]
    \/ (a.profit[1] = b.profit[1] /\ a.index < b.index)
rank_by_adjusted(a, b) ==
    \/ a.adjusted_profit[1] > b.adjusted_profit[1]
    \/ (a.adjusted_profit[1] = b.adjusted_profit[1] /\ a.index < b.index)

sort_for_ranking_profit(frame) ==
    sort_values(frame, [i \in 1..Len(frame) |-> [j \in 1..Len(frame) |->
                           rank_by_profit(frame[i], frame[j])]])
sort_for_ranking_adjusted(frame) ==
    sort_values(frame, [i \in 1..Len(frame) |-> [j \in 1..Len(frame) |->
                           rank_by_adjusted(frame[i], frame[j])]])

\* Series.sum() of a group: NaN is skipped, the empty sum is 0
RECURSIVE nansum(_)
nansum(cells) ==
    IF cells = <<>> THEN 0
    ELSE (IF isna(Head(cells)) THEN 0 ELSE Head(cells)[1]) + nansum(Tail(cells))

\* position of a team in ascending text order
TeamRank(t) == CHOOSE k \in 1..Len(TeamOptions) : TeamOptions[k] = t

\* team_order with ascending=[True, True]
team_order_ascending(a, b) ==
    \/ a.profit_sum < b.profit_sum
    \/ (a.profit_sum = b.profit_sum /\ TeamRank(a.team) < TeamRank(b.team))

team_order(a, b) ==
    \/ a.profit_sum > b.profit_sum
    \/ (a.profit_sum = b.profit_sum /\ TeamRank(a.team) < TeamRank(b.team))

\* df_calc.groupby("team").agg(sum of profit, sum of adjusted_profit), then
\* sort_values(by=["profit_sum", "team"], ascending=[False, True]); a group
\* exists for every team that has a row, settled or not
team_aggregate(calc) ==
    LET teams == SelectSeq(TeamOptions,
                           LAMBDA t : \E i \in 1..Len(calc) : calc[i].team = t)
        members(t) == SelectSeq(calc, LAMBDA r : r.team = t)
        group(t) ==
            [team |-> t,
             profit_sum |->
                 nansum([i \in 1..Len(members(t)) |-> members(t)[i].profit]),
             adjusted_profit_sum |->
                 nansum([i \in 1..Len(members(t)) |->
                             members(t)[i].adjusted_profit])]
        team_agg == [k \in 1..Len(teams) |-> group(teams[k])]
    IN  sort_values(team_agg,
            [i \in 1..Len(team_agg) |-> [j \in 1..Len(team_agg) |->
                team_order(team_agg[i], team_agg[j])]])

\* ------------------------------------------------------------- handlers
\* skill = "beginner" if skill_jp == "初心者" else "experienced"
skill_of(skill_jp) ==
    IF skill_jp = "shoshinsha" THEN "beginner" ELSE "experienced"

\* str(uuid.uuid4()): the n-th value drawn
uuid4(n) == "u" \o ToString(n)

\* new_row of the registration form; final_stack None is written as text
\* that reads back as NaN
new_row(player_id, name, team, skill_jp, initial_buyin, t) ==
    [index |-> 0,
     player_id |-> player_id, name |-> name, team |-> team,
     skill |-> skill_of(skill_jp),
     initial_buyin |-> Num(initial_buyin),
     rebuy_total |-> Num(0), rebuy_count |-> Num(0),
     final_stack |-> NaN, created_at |-> t, updated_at |-> t]

\* pd.concat([df, pd.DataFrame([new_row])], ignore_index=True)
concat(frame, row) ==
    [i \in 1..Len(frame) + 1 |->
        IF i <= Len(frame) THEN [frame[i] EXCEPT !.index = i - 1]
        ELSE [row EXCEPT !.index = i - 1]]

\* x or 0
or_zero(x) == IF ~isna(x) /\ x[1] = 0 THEN Num(0) ELSE x

\* df.index[df[column] == value][0], as a position of the frame
first_player_id(frame, player_id) ==
    CHOOSE i \in 1..Len(frame) :
        /\ frame[i].player_id = player_id
        /\ \A j \in 1..(i - 1) : frame[j].player_id # player_id
first_name(frame, name) ==
    CHOOSE i \in 1..Len(frame) :
        /\ frame[i].name = name
        /\ \A j \in 1..(i - 1) : frame[j].name # name

\* add_rebuy without the rebuy_count assignment
add_rebuy_no_count(frame, player_id, rebuy_amount, t) ==
    LET idx == first_player_id(frame, player_id)
    IN  [frame EXCEPT
            ![idx].rebuy_total = add(or_zero(@), Num(rebuy_amount)),
            ![idx].updated_at = t]

\* the frame after the "+ Rebuy" button's three assignments
add_rebuy(frame, player_id, rebuy_amount, t) ==
    LET idx == first_player_id(frame, player_id)
    IN  [frame EXCEPT
            ![idx].rebuy_total = add(or_zero(@), Num(rebuy_amount)),
            ![idx].rebuy_count = add(or_zero(@), Num(1)),
            ![idx].updated_at = t]

\* save_final_stack stamping created_at instead of updated_at
save_final_stack_created_at(frame, selected_name_fs, final_stack_val, t) ==
    LET idx == first_name(frame, selected_name_fs)
    IN  [frame EXCEPT
            ![idx].final_stack = Num(final_stack_val),
            ![idx].created_at = t]

\* the frame after the final stack form's two assignments
save_final_stack(frame, selected_name_fs, final_stack_val, t) ==
    LET idx == first_name(frame, selected_name_fs)
    IN  [frame EXCEPT
            ![idx].final_stack = Num(final_stack_val),
            ![idx].updated_at = t]

\* Undo last re-buy (section 4.2): the frame with the last amount taken off
\* the totals, clamped at zero
undo_rebuy(frame, player_id, last, t) ==
    LET idx == first_player_id(frame, player_id)
        total == fillna(frame[idx].rebuy_total, 0)[1] - last
        count == fillna(frame[idx].rebuy_count, 0)[1] - 1
    IN  [frame EXCEPT
            ![idx].rebuy_total = Num(IF total < 0 THEN 0 ELSE total),
            ![idx].rebuy_count = Num(IF count < 0 THEN 0 ELSE count),
            ![idx].updated_at = t]

\* the re-buy log with one amount appended to a player's history
history_append(log, player_id, amount) ==
    IF player_id \in DOMAIN log
    THEN [log EXCEPT ![player_id] = Append(@, amount)]
    ELSE (player_id :> <<amount>>) @@ log

\* the re-buy log with the last amount of a player's history popped
history_pop(log, player_id) ==
    [log EXCEPT ![player_id] = SubSeq(@, 1, Len(@) - 1)]

history_of(log, player_id) ==
    IF player_id \in DOMAIN log THEN log[player_id] ELSE <<>>

\* whether write_players_df raises
raises(frame, fail) ==
    \/ fail \in {"clear", "append_row"}
    \/ (fail = "append_rows" /\ Len(frame) > 0)

FailPoints == {"none", "clear", "append_row", "append_rows"}

\* ---------------------------------------------------------------- state
VARIABLES
    sheet,          \* the worksheet: ws.get_all_values(), a sequence of rows
    df,             \* df[c]: the DataFrame of session c's script run
    pc,             \* pc[c]: "idle" between runs, "run" once main() has loaded
    out,            \* out[c]: what the last run of session c displayed
    view,           \* view[c]: the tables the last run of session c rendered
    now,            \* datetime.now(), in seconds
    issued,         \* the number of uuid4 values drawn
    registered,     \* history: player_id -> the row its registration wrote
    rebuy_history   \* the re-buy log of section 3 (no column of this
                    \* revision holds it): player_id -> the amounts of
                    \* its re-buys accepted and not undone

vars == <<sheet, df, pc, out, view, now, issued, registered, rebuy_history>>

NoView == [df_calc |-> <<>>, profit_rank |-> <<>>, adjusted_rank |-> <<>>,
           team_agg |-> <<>>]

Init ==
    /\ sheet = <<Columns>>
    /\ df = [c \in Clients |-> <<>>]
    /\ pc = [c \in Clients |-> "idle"]
    /\ out = [c \in Clients |-> "none"]
    /\ view = [c \in Clients |-> NoView]
    /\ now = 0
    /\ issued = 0
    /\ registered = <<>>
    /\ rebuy_history = <<>>

\* the run of main() ends: by st.experimental_rerun(), by an exception, or at
\* the end of the script; the session shows `shown`
EndRun(c, shown) ==
    /\ pc' = [pc EXCEPT ![c] = "idle"]
    /\ df' = [df EXCEPT ![c] = <<>>]
    /\ out' = [out EXCEPT ![c] = shown]

\* a second passes
Tick ==
    /\ now < MaxTime
    /\ now' = now + 1
    /\ UNCHANGED <<sheet, df, pc, out, view, issued, registered, rebuy_history>>

\* a widget event starts a run of main(): df = load_players_df()
Load(c) ==
    /\ pc[c] = "idle"
    /\ df' = [df EXCEPT ![c] = load_players_df(sheet)]
    /\ pc' = [pc EXCEPT ![c] = "run"]
    /\ out' = [out EXCEPT ![c] = "none"]
    /\ view' = [view EXCEPT ![c] = NoView]
    /\ UNCHANGED <<sheet, now, issued, registered, rebuy_history>>

\* the add_player_form is submitted
Register(c, name, team, skill_jp, initial_buyin, fail) ==
    /\ pc[c] = "run"
    /\ IF name = ""
       THEN /\ EndRun(c, "EmptyName")
            /\ UNCHANGED <<sheet, issued, registered, rebuy_history>>
       ELSE /\ issued < MaxPlayers
            /\ LET player_id == uuid4(issued + 1)
                   row == new_row(player_id, name, team, skill_jp,
                                  initial_buyin, now)
                   frame == concat(df[c], row)
               IN  /\ sheet' = write_players_df(sheet, frame, fail)
                   /\ issued' = issued + 1
                   /\ IF raises(frame, fail)
                      THEN /\ EndRun(c, "StoreUnavailable")
                           /\ UNCHANGED <<registered, rebuy_history>>
                      ELSE /\ EndRun(c, "registered")
                           /\ registered' = (player_id :> row) @@ registered
                           /\ rebuy_history' =
                                  (player_id :> <<>>) @@ rebuy_history
    /\ UNCHANGED <<view, now>>

\* Rebuy testing rebuy_amount < 0 instead of <= 0
RebuyAcceptsZero(c, player_id, rebuy_amount, fail) ==
    /\ pc[c] = "run"
    /\ \E i \in 1..Len(df[c]) : df[c][i].player_id = player_id
    /\ IF rebuy_amount < 0
       THEN /\ EndRun(c, "InvalidAmount")
            /\ UNCHANGED <<sheet, rebuy_history>>
       ELSE /\ Len(history_of(rebuy_history, player_id)) < MaxRebuyCount
            /\ LET frame == add_rebuy(df[c], player_id, rebuy_amount, now)
               IN  /\ sheet' = write_players_df(sheet, frame, fail)
                   /\ IF raises(frame, fail)
                      THEN /\ EndRun(c, "StoreUnavailable")
                           /\ UNCHANGED rebuy_history
                      ELSE /\ EndRun(c, "rebuy_added")
                           /\ rebuy_history' =
                                  history_append(rebuy_history, player_id,
                                                 rebuy_amount)
    /\ UNCHANGED <<view, now, issued, registered>>

\* the "+ Rebuy" button of the card of player_id is pressed
Rebuy(c, player_id, rebuy_amount, fail) ==
    /\ pc[c] = "run"
    /\ \E i \in 1..Len(df[c]) : df[c][i].player_id = player_id
    /\ IF rebuy_amount <= 0
       THEN /\ EndRun(c, "InvalidAmount")
            /\ UNCHANGED <<sheet, rebuy_history>>
       ELSE /\ Len(history_of(rebuy_history, player_id)) < MaxRebuyCount
            /\ LET frame == add_rebuy(df[c], player_id, rebuy_amount, now)
               IN  /\ sheet' = write_players_df(sheet, frame, fail)
                   /\ IF raises(frame, fail)
                      THEN /\ EndRun(c, "StoreUnavailable")
                           /\ UNCHANGED rebuy_history
                      ELSE /\ EndRun(c, "rebuy_added")
                           /\ rebuy_history' =
                                  history_append(rebuy_history, player_id,
                                                 rebuy_amount)
    /\ UNCHANGED <<view, now, issued, registered>>

\* Undo last re-buy of player_id (section 4.2)
UndoRebuy(c, player_id, fail) ==
    /\ pc[c] = "run"
    /\ \E i \in 1..Len(df[c]) : df[c][i].player_id = player_id
    /\ LET history == history_of(rebuy_history, player_id)
       IN  IF history = <<>>
           THEN /\ EndRun(c, "NothingToUndo")
                /\ UNCHANGED <<sheet, rebuy_history>>
           ELSE LET frame == undo_rebuy(df[c], player_id,
                                       history[Len(history)], now)
                IN  /\ sheet' = write_players_df(sheet, frame, fail)
                    /\ IF raises(frame, fail)
                       THEN /\ EndRun(c, "StoreUnavailable")
                            /\ UNCHANGED rebuy_history
                       ELSE /\ EndRun(c, "rebuy_undone")
                            /\ rebuy_history' =
                                   history_pop(rebuy_history, player_id)
    /\ UNCHANGED <<view, now, issued, registered>>

\* the final_stack_form is submitted
SaveFinalStack(c, selected_name_fs, final_stack_val, fail) ==
    /\ pc[c] = "run"
    /\ \E i \in 1..Len(df[c]) : df[c][i].name = selected_name_fs
    /\ LET frame == save_final_stack(df[c], selected_name_fs,
                                     final_stack_val, now)
       IN  /\ sheet' = write_players_df(sheet, frame, fail)
           /\ EndRun(c, IF raises(frame, fail) THEN "StoreUnavailable"
                        ELSE "final_stack_saved")
    /\ UNCHANGED <<view, now, issued, registered, rebuy_history>>

\* the "▶ 集計を実行する" button is pressed
Aggregate(c) ==
    /\ pc[c] = "run"
    /\ Len(df[c]) > 0
    /\ LET df_calc == compute_profit_and_adjusted(df[c])
       IN  view' = [view EXCEPT ![c] =
                [df_calc |-> df_calc,
                 profit_rank |-> sort_for_ranking_profit(dropna_profit(df_calc)),
                 adjusted_rank |->
                     sort_for_ranking_adjusted(dropna_adjusted(df_calc)),
                 team_agg |-> team_aggregate(df_calc)]]
    /\ EndRun(c, "aggregated")
    /\ UNCHANGED <<sheet, now, issued, registered, rebuy_history>>

\* the "🗑 すべてリセットする" button is pressed
ResetAll(c, fail) ==
    /\ pc[c] = "run"
    /\ sheet' = write_players_df(sheet, <<>>, fail)
    /\ IF raises(<<>>, fail)
       THEN /\ EndRun(c, "StoreUnavailable")
            /\ UNCHANGED <<registered, rebuy_history>>
       ELSE /\ EndRun(c, "reset_done")
            /\ registered' = <<>>
            /\ rebuy_history' = <<>>
    /\ UNCHANGED <<view, now, issued>>

PlayerIds == {uuid4(n) : n \in 1..MaxPlayers}

\* one session, the store backend available: the single-writer use of section 5
Next ==
    \/ Tick
    \/ Load(1)
    \/ \E r \in RegisterInputs : Register(1, r[1], r[2], r[3], r[4], "none")
    \/ \E p \in PlayerIds, a \in RebuyInputs : Rebuy(1, p, a, "none")
    \/ \E p \in PlayerIds : UndoRebuy(1, p, "none")
    \/ \E name \in NameInputs, v \in FinalStackInputs :
          SaveFinalStack(1, name, v, "none")
    \/ Aggregate(1)
    \/ ResetAll(1, "none")

Spec == Init /\ [][Next]_vars

\* one session, the store backend failing at any call of a write
NextStoreFail ==
    \/ Load(1)
    \/ \E r \in RegisterInputs, fail \in FailPoints :
          Register(1, r[1], r[2], r[3], r[4], fail)
    \/ \E p \in PlayerIds, a \in RebuyInputs, fail \in FailPoints :
          Rebuy(1, p, a, fail)
    \/ \E name \in NameInputs, v \in FinalStackInputs, fail \in FailPoints :
          SaveFinalStack(1, name, v, fail)
    \/ \E fail \in FailPoints : ResetAll(1, fail)

SpecStoreFail == Init /\ [][NextStoreFail]_vars

\* the ledger after one registration at second 0
FirstPlayer == new_row(uuid4(1), "a", "CSE", "shoshinsha", 0, 0)

InitTwoClients ==
    /\ sheet = written(<<FirstPlayer>>)
    /\ df = [c \in Clients |-> <<>>]
    /\ pc = [c \in Clients |-> "idle"]
    /\ out = [c \in Clients |-> "none"]
    /\ view = [c \in Clients |-> NoView]
    /\ now = 0
    /\ issued = 1
    /\ registered = (uuid4(1) :> FirstPlayer)
    /\ rebuy_history = (uuid4(1) :> <<>>)

\* what the two sessions submit
TwoClientsRegisterInputs == { <<"b", "RC", "keikensha", 1>> }
TwoClientsRebuyInputs == {1}
TwoClientsFinalStackInputs == {3}

\* two sessions, the store backend available; each write is one step, so the
\* two writes of a behaviour are ordered
NextTwoClients ==
    \/ \E c \in Clients : Load(c)
    \/ \E c \in Clients, r \in TwoClientsRegisterInputs :
          Register(c, r[1], r[2], r[3], r[4], "none")
    \/ \E c \in Clients, p \in PlayerIds, a \in TwoClientsRebuyInputs :
          Rebuy(c, p, a, "none")
    \/ \E c \in Clients, name \in NameInputs, v \in TwoClientsFinalStackInputs :
          SaveFinalStack(c, name, v, "none")

SpecTwoClients == InitTwoClients /\ [][NextTwoClients]_vars

\* ledgers given to the settlement computation: rows registered at second 0,
\* <<initial_buyin, rebuy_total, rebuy_count, final_stack>> giving no profit
\* (pending) or the profits 3, -3 (from a negative final stack after a
\* re-buy) and 0
SettleStakes ==
    { <<0, 0, 0, NaN>>, <<0, 0, 0, Num(3)>>, <<1, 1, 1, Num(-1)>>,
      <<1, 1, 1, Num(2)>> }

SettleRow(i, team, skill_jp, stake) ==
    [new_row(uuid4(i), "a", team, skill_jp, stake[1], 0) EXCEPT
        !.rebuy_total = Num(stake[2]),
        !.rebuy_count = Num(stake[3]),
        !.final_stack = stake[4]]

\* the ledgers settled: up to MaxRows stored rows, each of any team, skill and
\* stake
InitSettle ==
    /\ \E n \in 0..MaxRows :
       \E f \in [1..n -> (1..Len(TeamOptions)) \X (1..Len(SkillOptions))
                             \X SettleStakes] :
          LET ledger == [i \in 1..n |->
                  SettleRow(i, TeamOptions[f[i][1]], SkillOptions[f[i][2]],
                            f[i][3])]
          IN
          /\ sheet = written(ledger)
          /\ issued = Len(ledger)
          /\ registered = [p \in {uuid4(i) : i \in 1..Len(ledger)} |->
                 LET r == ledger[CHOOSE i \in 1..Len(ledger) : uuid4(i) = p]
                 IN  [r EXCEPT !.rebuy_total = Num(0),
                               !.rebuy_count = Num(0),
                               !.final_stack = NaN]]
          /\ rebuy_history = [p \in {uuid4(i) : i \in 1..Len(ledger)} |->
                 LET r == ledger[CHOOSE i \in 1..Len(ledger) : uuid4(i) = p]
                 IN  IF r.rebuy_count = Num(0) THEN <<>>
                     ELSE <<r.rebuy_total[1]>>]
    /\ df = [c \in Clients |-> <<>>]
    /\ pc = [c \in Clients |-> "idle"]
    /\ out = [c \in Clients |-> "none"]
    /\ view = [c \in Clients |-> NoView]
    /\ now = 0

\* the settlement computation on a given ledger
NextSettle ==
    \/ Load(1)
    \/ Aggregate(1)

SpecSettle == InitSettle /\ [][NextSettle]_vars

\* ================================================================ claims
\* the data rows of the worksheet
StoredRows == IF Len(sheet) <= 1 THEN <<>> ELSE Tail(sheet)

\* the sum of a sequence of integers
RECURSIVE SumSeq(_)
SumSeq(q) == IF q = <<>> THEN 0 ELSE Head(q) + SumSeq(Tail(q))

\* C1: for every record whose final_stack is present the settlement gives
\* profit = final_stack - (initial_buyin + rebuy_total), also for a negative
\* final_stack; a record whose final_stack is absent gets no profit and is in
\* no profit ranking. The records settled are the stored ones.
C1_ProfitExact ==
    \A c \in Clients : out[c] = "aggregated" =>
        LET calc == view[c].df_calc
        IN  /\ Len(calc) = Len(StoredRows)
            /\ \A i \in 1..Len(calc) :
                 LET r == calc[i]
                     stored == StoredRows[r.index + 1]
                 IN  /\ stored.player_id = r.player_id
                     /\ stored.final_stack = astype_str(r.final_stack)
                     /\ stored.initial_buyin = ToString(r.initial_buyin[1])
                     /\ stored.rebuy_total = ToString(r.rebuy_total[1])
                     /\ IF stored.final_stack = "nan"
                        THEN /\ r.profit = NaN
                             /\ \A k \in 1..Len(view[c].profit_rank) :
                                  view[c].profit_rank[k].player_id # r.player_id
                        ELSE /\ r.profit # NaN
                             /\ r.profit[1] = r.final_stack[1]
                                  - (r.initial_buyin[1] + r.rebuy_total[1])
                             /\ \E k \in 1..Len(view[c].profit_rank) :
                                  view[c].profit_rank[k] = r

\* a settlement of a record with re-buys, one with a negative final stack
\* and a pending one
C1_Witness ==
    /\ out[1] = "aggregated"
    /\ \E i, j, k \in 1..Len(view[1].df_calc) :
         /\ view[1].df_calc[i].final_stack = Num(-1)
         /\ view[1].df_calc[i].profit = Num(-3)
         /\ view[1].df_calc[j].rebuy_total = Num(1)
         /\ view[1].df_calc[j].profit = Num(0)
         /\ view[1].df_calc[k].final_stack = NaN
         /\ view[1].df_calc[k].profit = NaN

\* C2: for every settled record adjusted_profit follows the four-way rule:
\* the profit doubled for a beginner (novice) with profit >= 0 and for an
\* experienced player (expert) with profit < 0, halved otherwise; the half
\* is rounded to the nearest integer, a tie to the even neighbour, never
\* truncated; profit 0 gives 0; a pending record gets none.
C2_HandicapRule ==
    \A c \in Clients : out[c] = "aggregated" =>
        \A i \in 1..Len(view[c].df_calc) :
            LET r == view[c].df_calc[i]
                p == r.profit[1]
                h == r.adjusted_profit[1]
                doubled == \/ (p >= 0 /\ r.skill = "beginner")
                           \/ (p < 0 /\ r.skill = "experienced")
            IN  IF r.profit = NaN THEN r.adjusted_profit = NaN
                ELSE /\ r.adjusted_profit # NaN
                     /\ r.skill \in {"beginner", "experienced"}
                     /\ h \in Int
                     /\ doubled => h = 2 * p
                     /\ ~doubled => /\ 2 * h - p \in {-1, 0, 1}
                                    /\ (p % 2 = 1 => h % 2 = 0)
                     /\ p = 0 => h = 0

\* a settlement where a half is rounded away from truncation on both sides
\* (1.5 -> 2, -1.5 -> -2) and a loss is doubled
C2_Witness ==
    /\ out[1] = "aggregated"
    /\ \E i, j, k \in 1..Len(view[1].df_calc) :
         /\ view[1].df_calc[i].skill = "experienced"
         /\ view[1].df_calc[i].profit = Num(3)
         /\ view[1].df_calc[i].adjusted_profit = Num(2)
         /\ view[1].df_calc[j].skill = "beginner"
         /\ view[1].df_calc[j].profit = Num(-3)
         /\ view[1].df_calc[j].adjusted_profit = Num(-2)
         /\ view[1].df_calc[k].skill = "experienced"
         /\ view[1].df_calc[k].profit = Num(-3)
         /\ view[1].df_calc[k].adjusted_profit = Num(-6)

\* the sum of the profits of the settled records of a team, over the rows
\* numbered in S
RECURSIVE SettledTotal(_, _, _)
SettledTotal(calc, team, S) ==
    IF S = {} THEN 0
    ELSE LET i == CHOOSE k \in S : TRUE
             own == IF calc[i].team = team /\ calc[i].final_stack # NaN
                    THEN calc[i].final_stack[1]
                           - (calc[i].initial_buyin[1] + calc[i].rebuy_total[1])
                    ELSE 0
         IN  own + SettledTotal(calc, team, S \ {i})

\* C5: the team ranking by profit gives each team the sum of the profits of
\* its settled records (a pending record contributes nothing), lists every
\* team that has a settled record, each team once, in descending order of
\* the sum, equal sums in ascending order of the team identifier.
C5_TeamRanking ==
    \A c \in Clients : out[c] = "aggregated" =>
        LET calc == view[c].df_calc
            agg == view[c].team_agg
        IN  /\ \A k \in 1..Len(agg) :
                 agg[k].profit_sum =
                     SettledTotal(calc, agg[k].team, 1..Len(calc))
            /\ \A i \in 1..Len(calc) : calc[i].final_stack # NaN =>
                 \E k \in 1..Len(agg) : agg[k].team = calc[i].team
            /\ \A k, l \in 1..Len(agg) : k < l =>
                 /\ agg[k].team # agg[l].team
                 /\ agg[k].profit_sum >= agg[l].profit_sum
                 /\ agg[k].profit_sum = agg[l].profit_sum =>
                      TeamRank(agg[k].team) < TeamRank(agg[l].team)

\* team RC = {3, -3} totals 0 and ranks above team CSE = {-3}, against the
\* order of the identifiers
C5_Witness ==
    /\ out[1] = "aggregated"
    /\ Len(view[1].df_calc) = 3
    /\ Len(view[1].team_agg) = 2
    /\ view[1].team_agg[1].team = "RC"
    /\ view[1].team_agg[1].profit_sum = 0
    /\ view[1].team_agg[2].team = "CSE"
    /\ view[1].team_agg[2].profit_sum = -3
    /\ \A i \in 1..3 : view[1].df_calc[i].final_stack # NaN
    /\ \E i \in 1..3 : view[1].df_calc[i].profit = Num(3)

\* the stored row of a player, and whether there is one
HasStored(rows, player_id) ==
    \E i \in 1..Len(rows) : rows[i].player_id = player_id
Stored(rows, player_id) ==
    rows[CHOOSE i \in 1..Len(rows) : rows[i].player_id = player_id]
DataRows(ws) == IF Len(ws) <= 1 THEN <<>> ELSE Tail(ws)

\* C3: for every stored record rebuy_total is the sum of the amounts of its
\* active re-buys (added and not undone) and rebuy_count their number,
\* neither negative, whatever registrations, re-buys, undos and final-stack
\* updates came before.
C3_RebuyTotals ==
    \A i \in 1..Len(StoredRows) :
        LET row == StoredRows[i]
            history == history_of(rebuy_history, row.player_id)
        IN  /\ row.rebuy_total = ToString(SumSeq(history))
            /\ row.rebuy_count = ToString(Len(history))
            /\ SumSeq(history) >= 0

\* a record that holds one re-buy of 2 after a re-buy of 1 was undone, next
\* to a second record, with a final stack saved
C3_Witness ==
    /\ out[1] = "rebuy_undone"
    /\ Len(StoredRows) = 2
    /\ \E i \in 1..2 :
          /\ rebuy_history[StoredRows[i].player_id] = <<2>>
          /\ StoredRows[i].rebuy_total = "2"
          /\ StoredRows[i].rebuy_count = "1"
          /\ StoredRows[i].final_stack # "nan"

\* whether a ranking lists exactly the settled rows of calc, each once
RanksSettled(rank, calc) ==
    /\ \A k \in 1..Len(rank) :
          \E i \in 1..Len(calc) :
              calc[i] = rank[k] /\ calc[i].final_stack # NaN
    /\ \A i \in 1..Len(calc) : calc[i].final_stack # NaN =>
          \E k \in 1..Len(rank) : rank[k] = calc[i]
    /\ \A k, l \in 1..Len(rank) : k # l => rank[k].player_id # rank[l].player_id

\* C4: the ranking by profit, and the one by adjusted profit, list the
\* settled players in descending order of the metric, players with an equal
\* metric in ascending order of created_at.
C4_RankingOrder ==
    \A c \in Clients : out[c] = "aggregated" =>
        LET byProfit == view[c].profit_rank
            byAdjusted == view[c].adjusted_rank
        IN  /\ RanksSettled(byProfit, view[c].df_calc)
            /\ RanksSettled(byAdjusted, view[c].df_calc)
            /\ \A k, l \in 1..Len(byProfit) : k < l =>
                 /\ byProfit[k].profit[1] >= byProfit[l].profit[1]
                 /\ byProfit[k].profit[1] = byProfit[l].profit[1] =>
                      byProfit[k].created_at <= byProfit[l].created_at
            /\ \A k, l \in 1..Len(byAdjusted) : k < l =>
                 /\ byAdjusted[k].adjusted_profit[1]
                      >= byAdjusted[l].adjusted_profit[1]
                 /\ byAdjusted[k].adjusted_profit[1]
                      = byAdjusted[l].adjusted_profit[1] =>
                      byAdjusted[k].created_at <= byAdjusted[l].created_at

\* two settled players with the same profit registered in different seconds,
\* the earlier one ranked first
C4_Witness ==
    /\ out[1] = "aggregated"
    /\ Len(view[1].profit_rank) = 2
    /\ view[1].profit_rank[1].profit = view[1].profit_rank[2].profit
    /\ view[1].profit_rank[1].created_at < view[1].profit_rank[2].created_at

\* str.strip() on the texts of NameInputs
strip(name) == IF name = " " THEN "" ELSE name

\* C6: a registration whose name is empty after trimming fails with
\* EmptyName, adds no record and leaves the ledger unchanged.
C6_EmptyNameRejected ==
    [][\A r \in RegisterInputs :
          (strip(r[1]) = "" /\ Register(1, r[1], r[2], r[3], r[4], "none"))
              => (out'[1] = "EmptyName" /\ sheet' = sheet)]_vars

\* C7: a re-buy of amount <= 0 fails with InvalidAmount and leaves the
\* ledger unchanged (nothing is written); a re-buy of amount > 0 raises the
\* target's rebuy_total by the amount and its rebuy_count by 1.
C7_RebuyAmount ==
    [][\A p \in PlayerIds, a \in RebuyInputs : Rebuy(1, p, a, "none") =>
          IF a <= 0
          THEN out'[1] = "InvalidAmount" /\ sheet' = sheet
          ELSE /\ out'[1] = "rebuy_added"
               /\ HasStored(DataRows(sheet), p) /\ HasStored(DataRows(sheet'), p)
               /\ to_numeric(Stored(DataRows(sheet'), p).rebuy_total) =
                    add(to_numeric(Stored(DataRows(sheet), p).rebuy_total),
                        Num(a))
               /\ to_numeric(Stored(DataRows(sheet'), p).rebuy_count) =
                    add(to_numeric(Stored(DataRows(sheet), p).rebuy_count),
                        Num(1))]_vars

\* a re-buy of 0 was just refused for a ledger whose record already holds an
\* accepted re-buy
C7_Witness ==
    /\ out[1] = "InvalidAmount"
    /\ \E i \in 1..Len(StoredRows) :
          /\ StoredRows[i].rebuy_total = "2"
          /\ StoredRows[i].rebuy_count = "1"

\* C9: every stored record keeps the player_id, name, team, skill,
\* initial_buyin and created_at its registration assigned, no two stored
\* records share a player_id, and a record leaves the store only by a full
\* reset.
C9_Immutable ==
    [][/\ \A i \in 1..Len(DataRows(sheet')) :
            LET row == DataRows(sheet')[i]
            IN  /\ row.player_id \in DOMAIN registered'
                /\ row.name = registered'[row.player_id].name
                /\ row.team = registered'[row.player_id].team
                /\ row.skill = registered'[row.player_id].skill
                /\ to_numeric(row.initial_buyin) =
                       registered'[row.player_id].initial_buyin
                /\ row.created_at = registered'[row.player_id].created_at
                /\ \A j \in 1..Len(DataRows(sheet')) :
                       j # i => DataRows(sheet')[j].player_id # row.player_id
       /\ \/ out'[1] = "reset_done"
          \/ \A i \in 1..Len(DataRows(sheet)) :
                HasStored(DataRows(sheet'), DataRows(sheet)[i].player_id)]_vars

\* two stored records, one of them touched by a re-buy and a final stack a
\* second after its registration
C9_Witness ==
    /\ Len(StoredRows) = 2
    /\ \E i \in 1..2 :
          /\ StoredRows[i].rebuy_count = "1"
          /\ StoredRows[i].final_stack # "nan"
          /\ StoredRows[i].created_at < StoredRows[i].updated_at

\* C8: when the store backend fails during the write of a registration, a
\* re-buy, a final stack or a reset, the stored ledger is exactly the ledger
\* before the mutation or exactly the ledger after it.
C8_NoPartialWrite ==
    [][\A fail \in FailPoints :
          /\ \A r \in RegisterInputs :
                (r[1] # "" /\ Register(1, r[1], r[2], r[3], r[4], fail)) =>
                    sheet' \in {sheet,
                        written(concat(df[1],
                            new_row(uuid4(issued + 1), r[1], r[2], r[3], r[4],
                                    now)))}
          /\ \A p \in PlayerIds, a \in RebuyInputs :
                (a > 0 /\ Rebuy(1, p, a, fail)) =>
                    sheet' \in {sheet, written(add_rebuy(df[1], p, a, now))}
          /\ \A name \in NameInputs, v \in FinalStackInputs :
                SaveFinalStack(1, name, v, fail) =>
                    sheet' \in {sheet,
                                written(save_final_stack(df[1], name, v, now))}
          /\ ResetAll(1, fail) => sheet' \in {sheet, written(<<>>)}]_vars

\* the columns a mutation assigns in the row of its player
Touched(shown) ==
    CASE shown = "rebuy_added" -> {"rebuy_total", "rebuy_count", "updated_at"}
      [] shown = "final_stack_saved" -> {"final_stack", "updated_at"}
      [] OTHER -> {}

\* session c completes a mutation in this step
MutationDone(c) ==
    /\ pc[c] = "run"
    /\ out'[c] \in {"registered", "rebuy_added", "final_stack_saved"}

\* the write of session c keeps every stored record, and changes a stored
\* cell only where session c assigned it
MergesPerField(c) ==
    \A i \in 1..Len(DataRows(sheet)) :
        LET before == DataRows(sheet)[i]
            p == before.player_id
        IN  /\ HasStored(DataRows(sheet'), p)
            /\ \A f \in DOMAIN Columns :
                  Stored(DataRows(sheet'), p)[f] # before[f] =>
                      f \in Touched(out'[c])

\* C10 as stated: whatever another session wrote since session c loaded, the
\* write of session c keeps it, except in the cells session c assigns (last
\* write wins per field).
C10_PerFieldLastWrite ==
    [][\A c \in Clients : MutationDone(c) => MergesPerField(c)]_vars

\* C10 as amended: the write of session c leaves exactly the ledger session
\* c loaded with its own mutation applied (one appended record, or the
\* assigned cells of one record), so that whatever another session wrote
\* since that load is lost; the other session's mutation is kept when
\* session c loaded after it was written.
C10_WholeLedgerLastWrite ==
    [][\A c \in Clients : MutationDone(c) =>
          LET snap == [i \in 1..Len(df[c]) |-> SheetRow(df[c][i])]
              post == DataRows(sheet')
          IN  /\ Len(post) =
                     Len(snap) + (IF out'[c] = "registered" THEN 1 ELSE 0)
              /\ \A i \in 1..Len(snap) : \A f \in DOMAIN Columns :
                     post[i][f] # snap[i][f] => f \in Touched(out'[c])
              /\ Cardinality({i \in 1..Len(snap) : post[i] # snap[i]}) <= 1
              /\ df[c] = load_players_df(sheet) => MergesPerField(c)]_vars

\* session 1 added a re-buy of 1 to player u1, then session 2, which had
\* loaded before, saved u1's final stack: the store holds the final stack
\* and no re-buy
C10_Witness ==
    /\ out[1] = "rebuy_added"
    /\ out[2] = "final_stack_saved"
    /\ rebuy_history[uuid4(1)] = <<1>>
    /\ HasStored(StoredRows, uuid4(1))
    /\ Stored(StoredRows, uuid4(1)).rebuy_total = "0"
    /\ Stored(StoredRows, uuid4(1)).final_stack = "3"

\* the worksheet rows after the final stack form saved final_stack_val for
\* the player shown at position k of the selectbox, as the claim has it: that
\* row with final_stack and updated_at assigned, every other row as loaded
SavedFor(frame, k, final_stack_val, t) ==
    [j \in 1..Len(frame) |->
        IF j = k
        THEN SheetRow([frame[j] EXCEPT !.final_stack = Num(final_stack_val),
                                       !.updated_at = t])
        ELSE SheetRow(frame[j])]

\* C11: saving a final stack for the player chosen in the selectbox sets
\* final_stack and updated_at of exactly that player's record and leaves
\* every other record unchanged, also when another registered player has the
\* same name; so every registered player can be settled.
C11_FinalStackOfChosenPlayer ==
    [][\A name \in NameInputs, v \in FinalStackInputs :
          SaveFinalStack(1, name, v, "none") =>
              \A k \in 1..Len(df[1]) : df[1][k].name = name =>
                  DataRows(sheet') = SavedFor(df[1], k, v, now)]_vars

====
